---- MODULE Spec2Model ----
(***************************************************************************)
(* Retrieval (search_service.py), provider resolution and generation       *)
(* orchestration (generation_service.py, providers/*.py), the HTTP routes  *)
(* (search_routes.py) and the streaming consumer (frontend/app.py).        *)
(*                                                                         *)
(* Text is modelled as a sequence of tokens; a chunk on the wire is a      *)
(* sequence of tokens, string concatenation is \o and str.startswith is    *)
(* a prefix test.                                                          *)
(***************************************************************************)
EXTENDS Integers, Sequences, FiniteSets, TLC

\* ------------------------------------------------------------------ bounds
NumPoints == 5
MaxCandidates == 3
MaxLimit == 3
MaxChunks == 2
MaxRuns == 3

\* ------------------------------------------------------- program constants
FETCH_MULT_IDS == 100
FETCH_MULT_TITLES == 280

None == "None"
NoTitle == ""

Max(a, b) == IF a >= b THEN a ELSE b
Min(a, b) == IF a <= b THEN a ELSE b

Take(s, n) == SubSeq(s, 1, Min(n, Len(s)))

\* ------------------------------------------------------------------ corpus
\* Point ids of the collection and the title stored in each point's payload.
\* Several chunks share a title; of every five points one has an empty
\* title and one has none (payload.get("title") is None: the key is missing
\* or null).
PointIds == 1..NumPoints

TitleOf(id) ==
    IF id % 5 = 0 THEN None
    ELSE IF id % 5 = 4 THEN NoTitle
    ELSE IF id % 5 = 3 THEN "B"
    ELSE "A"

\* Python's "not title"
not_title(title) == title \in {None, NoTitle}

\* The fused ranking the index computes for a query and filter: point ids in
\* descending fused-score order.
ShortRankings == UNION { [1..n -> PointIds] : n \in 0..MaxCandidates }

\* A query whose best matches are the many chunks of articles of one title:
\* more records titled "A" than two results' worth of over-fetch, then one
\* record titled "B".
DeepLen == 2 * FETCH_MULT_TITLES + 1
DeepRanking ==
    [r \in 1..DeepLen |->
        IF r < DeepLen THEN 5 * ((r - 1) \div 2) + 1 + ((r - 1) % 2) ELSE 3]

Rankings == ShortRankings \cup {DeepRanking}

\* what the index does with the call: it answers, it cannot be reached, or
\* it answers with data the client cannot parse
IndexOutcomes == {"ok", "unreachable", "malformed"}

\* await vectorstore.client.query_points(...) raises unless the index answers
\* well-formed data
query_points_swallow(outcome) == FALSE

query_points_raises(outcome) == outcome # "ok"

\* what a failed call leaves its caller with: the exception and no list
RetrievalError == [raised |-> TRUE, response |-> <<>>, results |-> <<>>]

Limits == (0 - 1)..MaxLimit

\* response.points of query_points: at most fetch_limit scored points; the
\* rank stands for the score (rank 1 = highest fused score).
query_points(ranking, fetch_limit) ==
    [r \in 1..Min(fetch_limit, Len(ranking)) |->
        [id |-> ranking[r], title |-> TitleOf(ranking[r]), rank |-> r]]

\* Python's s[:n]
PySlice(s, n) ==
    IF n >= 0 THEN Take(s, n) ELSE Take(s, Max(Len(s) + n, 0))

\* ------------------------------------------------------- query_with_filters
Reverse(s) == [i \in 1..Len(s) |-> s[Len(s) + 1 - i]]

list_order_unstable(res) == {res, Reverse(res)}

\* the orders in which a call can return the list it built: results is a
\* list filled by append in the order of response.points, the sets seen_ids
\* and seen_titles are only tested for membership, never iterated
list_order(res) == {res}

NoRerun == [done |-> FALSE, results |-> <<>>]

\* state of a deduplication loop before its first iteration
LoopStart == [seen |-> {}, results |-> <<>>, broke |-> FALSE]

\* body of the loop over response.points for one point
dedup_ids_step(st, point) ==
    IF point.id \in st.seen THEN st
    ELSE [seen |-> st.seen \cup {point.id},
          results |-> Append(st.results, point), broke |-> FALSE]

\* the iterations lo..hi of the loop, in order, up to a break; the range is
\* halved so that long responses are evaluated with a shallow recursion
RECURSIVE dedup_ids_loop(_, _, _, _)
dedup_ids_loop(points, lo, hi, st) ==
    IF lo > hi THEN st
    ELSE IF lo = hi THEN dedup_ids_step(st, points[lo])
    ELSE LET mid  == (lo + hi) \div 2
             left == dedup_ids_loop(points, lo, mid, st)
         IN  IF left.broke THEN left
             ELSE dedup_ids_loop(points, mid + 1, hi, left)

dedup_ids(points) == dedup_ids_loop(points, 1, Len(points), LoopStart).results

truncate_results_noslice(res, lim) == res

truncate_results(res, lim) == PySlice(res, lim)

return_results_or_404(res) == [raised |-> res = <<>>, results |-> res]

\* return results: whatever the list holds, it is returned
return_results(res) == [raised |-> FALSE, results |-> res]

query_with_filters(ranking, lim, outcome) ==
    LET fetch_limit == Max(1, lim) * FETCH_MULT_IDS
        resp == query_points(ranking, fetch_limit)
        ret  == return_results(truncate_results(dedup_ids(resp), lim))
    IN  IF query_points_raises(outcome) THEN RetrievalError
        ELSE [raised |-> ret.raised, response |-> resp, results |-> ret.results]

\* ------------------------------------------------------ query_unique_titles
skip_title_nodedup(title, seen_titles) == not_title(title)

skip_title_keep_untitled(title, seen_titles) == title \in seen_titles

\* if not title or title in seen_titles: continue
skip_title(title, seen_titles) == not_title(title) \/ title \in seen_titles

\* body of the loop over response.points for one point
dedup_titles_step(st, point, lim) ==
    IF skip_title(point.title, st.seen) THEN st
    ELSE LET res == Append(st.results, point)
         IN  [seen |-> st.seen \cup {point.title}, results |-> res,
              broke |-> Len(res) >= lim]

RECURSIVE dedup_titles_loop(_, _, _, _, _)
dedup_titles_loop(points, lo, hi, st, lim) ==
    IF lo > hi THEN st
    ELSE IF lo = hi THEN dedup_titles_step(st, points[lo], lim)
    ELSE LET mid  == (lo + hi) \div 2
             left == dedup_titles_loop(points, lo, mid, st, lim)
         IN  IF left.broke THEN left
             ELSE dedup_titles_loop(points, mid + 1, hi, left, lim)

dedup_titles(points, lim) ==
    dedup_titles_loop(points, 1, Len(points), LoopStart, lim).results

query_unique_titles(ranking, lim, outcome) ==
    LET fetch_limit == Max(1, lim) * FETCH_MULT_TITLES
        resp == query_points(ranking, fetch_limit)
        ret  == return_results(dedup_titles(resp, lim))
    IN  IF query_points_raises(outcome) THEN RetrievalError
        ELSE [raised |-> ret.raised, response |-> resp, results |-> ret.results]

\* ------------------------------------------------------- provider registry
\* str.lower() on the provider names the requests of this model use.
Lower(p) ==
    CASE p = "OpenRouter"  -> "openrouter"
      [] p = "HuggingFace" -> "huggingface"
      [] p = "OpenAI"      -> "openai"
      [] OTHER             -> p

ProviderNames ==
    {"openrouter", "OpenRouter", "huggingface", "openai", "OpenAI",
     "not-a-real-provider"}

\* keys of MODEL_REGISTRY.models ("openai" is commented out)
MODEL_REGISTRY == {"openrouter", "huggingface"}

\* provider names generate_answer and stream_gen dispatch on
Dispatched == {"openai", "openrouter", "huggingface"}

get_config_default(p) == [ok |-> TRUE, key |-> Lower(p)]

get_config_exact(p) ==
    IF p \in MODEL_REGISTRY
    THEN [ok |-> TRUE, key |-> p]
    ELSE [ok |-> FALSE, key |-> p]

\* ModelRegistry.get_config: ok = FALSE stands for the ValueError
get_config(p) ==
    IF Lower(p) \in MODEL_REGISTRY
    THEN [ok |-> TRUE, key |-> Lower(p)]
    ELSE [ok |-> FALSE, key |-> Lower(p)]

\* ------------------------------------------------------ texts and markers
\* answer text of the examples: the backend's reply "Hello" in two pieces
HEL == <<"Hel">>
LO == <<"lo">>

MODEL_MARK == <<"__model_used__:">>
ERROR_MARK == <<"__error__">>
TRUNC_MARK == <<"__truncated__">>

\* delta.content of a backend chunk; <<>> is None or "". A backend is free
\* to produce text that reads like a marker.
Fragments == {HEL, LO, ERROR_MARK}
Contents == Fragments \cup {<<>>}
Finishes == {None, "stop", "length"}
Models == {None, "m1"}

\* chunks of the backend stream; chunk.model is only read on the first one
FirstChunks == [content : Contents, finish_reason : Finishes, model : Models]
LaterChunks == [content : Contents, finish_reason : Finishes, model : {None}]

\* events of the stream, tagged by the yield statement that produced them
Text(c) == [kind |-> "text", data |-> c]
ModelSelected(m) == [kind |-> "model", data |-> MODEL_MARK \o <<m>>]
Truncated == [kind |-> "truncated", data |-> TRUNC_MARK]
Error == [kind |-> "error", data |-> ERROR_MARK]

RECURSIVE Join(_)
Join(ss) == IF ss = <<>> THEN <<>> ELSE Head(ss) \o Join(Tail(ss))

Data(evs) == [i \in DOMAIN evs |-> evs[i].data]

StartsWith(s, prefix) ==
    Len(s) >= Len(prefix) /\ SubSeq(s, 1, Len(prefix)) = prefix

\* --------------------------------------------------------- stream adapters
text_yield(chunk) ==
    IF chunk.content # <<>> THEN <<Text(chunk.content)>> ELSE <<>>

adapter_chunk_yields_dropfirst(key, n, chunk) ==
    IF key = "openrouter" /\ n = 1
    THEN (IF chunk.model # None THEN <<ModelSelected(chunk.model)>> ELSE <<>>)
    ELSE text_yield(chunk)

\* what the adapter yields for the n-th chunk read from the backend stream
adapter_chunk_yields(key, n, chunk) ==
    IF key = "openrouter" /\ n = 1
    THEN (IF chunk.model # None THEN <<ModelSelected(chunk.model)>> ELSE <<>>)
         \o text_yield(chunk)
    ELSE text_yield(chunk)

\* last_finish_reason after the n-th chunk
adapter_finish(key, n, chunk, last) ==
    CASE key = "openai" ->
            IF chunk.finish_reason # None THEN chunk.finish_reason ELSE last
      [] key = "openrouter" ->
            IF n = 1 THEN None
            ELSE IF chunk.finish_reason # None THEN chunk.finish_reason ELSE last
      [] OTHER -> last

\* what the adapter yields after the backend stream has ended
adapter_end_yields(key, last) ==
    IF key \in {"openai", "openrouter"} /\ last = "length"
    THEN <<Truncated>> ELSE <<>>

\* config.primary_model of the registered configurations
primary_model(key) ==
    CASE key = "openrouter"  -> "openai/gpt-oss-20b:free"
      [] key = "huggingface" -> "deepseek-ai/DeepSeek-R1"
      [] OTHER               -> ""

\* per-call model overrides a request may carry
SelectedModels == {None, "m2"}

\* selected_model or config.primary_model
model_to_use(selected, key) ==
    IF selected # None THEN selected ELSE primary_model(key)

\* model= of the create call of generate_<provider>; generate_answer hands
\* selected_model to generate_openrouter only
generate_model(key, selected) ==
    CASE key = "openai"     -> "gpt-4o-mini"
      [] key = "openrouter" -> model_to_use(selected, key)
      [] OTHER              -> primary_model(key)

\* model= of the create call of stream_<provider>; stream_gen hands
\* selected_model to stream_openrouter only
stream_model(key, selected) ==
    IF key = "openrouter" THEN model_to_use(selected, key)
    ELSE primary_model(key)

\* stream_gen: TRUE when the provider's branch wraps the stream in try/except
\* and hands the joined buffer to evaluate_metrics
stream_gen_guarded(key) == key = "openrouter"

\* evaluate_metrics(output, prompt): the awaited call returns its scores or
\* raises
evaluate_metrics == {"ok", "failed"}

\* the batch response body and the backend response before they exist
NoBody == [present |-> FALSE, answer |-> <<>>, finish_reason |-> None]
NoResp == [raised |-> FALSE, answer |-> <<>>, finish_reason |-> None,
           native_finish_reason |-> None]

\* ---------------------------------------------- pipelines: ingestion flow
\* The flow whose last run is looked up, and another flow deployed on the
\* same Prefect server.
QDRANT_INGEST_FLOW == "qdrant_ingest_flow"
OTHER_FLOW == "rss_ingest_flow"
FlowNames == {QDRANT_INGEST_FLOW, OTHER_FLOW}
Registries == SUBSET FlowNames

\* limit=10 of read_flow_runs
RUN_LIMIT == 10

\* datetime | None
NoDate == [none |-> TRUE, time |-> 0]
Date(t) == [none |-> FALSE, time |-> t]
DEFAULT_START_DATE == Date(0)
FromDates == {NoDate, Date(1)}

\* The flow runs the server holds, most recent start first: every run is of
\* one flow and is in one state; a run started later has a larger start_time.
RunKinds == FlowNames \X {"COMPLETED", "FAILED"}
History(kinds) ==
    [i \in 1..Len(kinds) |->
        [flow_id |-> kinds[i][1], state |-> kinds[i][2],
         start_time |-> Len(kinds) - i + 1]]
ShortHistories == UNION { [1..n -> RunKinds] : n \in 0..MaxRuns }

\* The other flow runs more often than this one: RUN_LIMIT completed runs of
\* it have started since this flow's last completed run.
BusyHistory ==
    [i \in 1..(RUN_LIMIT + 1) |->
        IF i <= RUN_LIMIT THEN <<OTHER_FLOW, "COMPLETED">>
        ELSE <<QDRANT_INGEST_FLOW, "COMPLETED">>]

Histories == ShortHistories \cup {BusyHistory}

FlowsOf(kinds) == { kinds[i][1] : i \in 1..Len(kinds) }

\* client.read_flows(flow_filter=FlowFilter(name=dict(eq_=flow_name)))
read_flows(registry, flow_name) == { f \in registry : f = flow_name }

\* client.read_flow_runs(flow_run_filter=<state type COMPLETED>,
\*                       sort=START_TIME_DESC, limit=10): no filter on the flow
read_flow_runs(history) ==
    LET completed(r) == r.state = "COMPLETED"
    IN  Take(SelectSeq(history, completed), RUN_LIMIT)

get_last_successful_run(registry, history, flow_name) ==
    LET flows == read_flows(registry, flow_name)
        exact_flow == { f \in flows : f = flow_name }
        of_flow(r) == r.flow_id = flow_name
        flow_runs == SelectSeq(read_flow_runs(history), of_flow)
    IN  IF exact_flow = {} THEN NoDate
        ELSE IF flow_runs = <<>> THEN NoDate
        ELSE Date(flow_runs[1].start_time)

\* last_run_date or parser.parse(rss.default_start_date)
fallback_date(last_run_date) ==
    IF last_run_date.none THEN DEFAULT_START_DATE ELSE last_run_date

\* ------------------------------------------------------------------- state
VARIABLES
    mode,       \* "none" | "search" | "function" | "batch" | "stream"
    pc,         \* position of the request on the server
    variant, limit, response, results,          \* the retrieval call
    candidates,   \* the fused ranking the index holds for the query
    indexOutcome, \* what the index did with the call
    rerun,        \* the result of running the same retrieval call again
    provider,   \* provider name of the generation request
    chunks,     \* chunks read from the backend stream so far
    backendEnd, \* "open" | "eof" | "raised"
    last_finish_reason,
    buffer,     \* stream_gen's buffer
    sent,       \* events yielded by stream_gen, in order
    evalState,  \* "idle" | "running" | "ok" | "failed"
    evalInput,  \* text handed to evaluate_metrics
    backendResp,\* response of the batch backend call
    httpStatus, \* 0 while pending, else the status of the response
    body,       \* JSON body of the batch response
    wire,       \* tokens sent and not yet read by the consumer
    wireEnd,    \* "open" | "eof" | "abort"
    cpc,        \* position of call_ai
    answer_text,
    uiEvents,   \* (type, content) pairs yielded by call_ai
    indexCalls, backendCalls,
    answer_html,    \* the answer markup the handler of the UI has built
    shown,          \* the output the UI displays: the handler's last yield
    selected_model, \* per-call model override of the request, or None
    model_requested,\* model= argument of chat.completions.create
    registry,       \* names of the flows the Prefect server knows
    history,        \* flow runs the Prefect server holds, latest start first
    from_date,      \* from_date argument of qdrant_ingest_flow
    last_run_date,  \* what get_last_successful_run returned
    from_date_dt    \* the date ingest_qdrant is called with

vars == <<mode, pc, variant, limit, response, results, candidates,
          indexOutcome, rerun, provider, chunks,
          backendEnd, last_finish_reason, buffer, sent, evalState, evalInput,
          backendResp, httpStatus, body, wire, wireEnd, cpc, answer_text,
          uiEvents, indexCalls, backendCalls, answer_html, shown,
          selected_model, model_requested, registry, history, from_date,
          last_run_date, from_date_dt>>

retrievalVars == <<variant, limit, response, results, candidates,
                   indexOutcome, rerun>>
streamVars == <<chunks, backendEnd, last_finish_reason, buffer, sent>>
evalVars == <<evalState, evalInput>>
httpVars == <<httpStatus, body, wire, wireEnd>>
clientVars == <<cpc, answer_text, uiEvents>>
modelVars == <<selected_model, model_requested>>
displayVars == <<answer_html, shown>>
flowVars == <<registry, history, from_date, last_run_date, from_date_dt>>

Init ==
    /\ mode = "none" /\ pc = "idle"
    /\ variant = None /\ limit = 0 /\ response = <<>> /\ results = <<>>
    /\ candidates = <<>> /\ indexOutcome = None /\ rerun = NoRerun
    /\ provider = None
    /\ chunks = <<>> /\ backendEnd = "open" /\ last_finish_reason = None
    /\ buffer = <<>> /\ sent = <<>>
    /\ evalState = "idle" /\ evalInput = <<>>
    /\ backendResp = NoResp
    /\ httpStatus = 0 /\ body = NoBody /\ wire = <<>> /\ wireEnd = "open"
    /\ cpc = "idle" /\ answer_text = <<>> /\ uiEvents = <<>>
    /\ indexCalls = 0 /\ backendCalls = 0
    /\ selected_model = None /\ model_requested = None
    /\ answer_html = <<>> /\ shown = <<>>
    /\ registry = {} /\ history = <<>> /\ from_date = NoDate
    /\ last_run_date = NoDate /\ from_date_dt = NoDate

\* --------------------------------------------------------------- retrieval
\* inputs of the retrieval step of the generation routes
MaxCtx == 2
CtxRankings == { [i \in 1..n |-> i] : n \in 0..MaxCtx }
CtxLimits == {2}

\* status of the response: the registered handlers turn every exception a
\* route lets through into a 500 JSON response
exception_handler(raised) == IF raised THEN 500 ELSE 200

\* the retrieval function the route /search/unique-titles awaits
search_retrieval(ranking, lim, outcome) ==
    query_unique_titles(ranking, lim, outcome)

context_retrieval_unique(ranking, lim, outcome) ==
    query_unique_titles(ranking, lim, outcome)

\* the retrieval function the routes /search/ask and /search/ask/stream
\* await to collect the contexts of the prompt
context_retrieval(ranking, lim, outcome) ==
    query_with_filters(ranking, lim, outcome)

\* query_with_filters applied to any ranking and limit
QueryWithFilters ==
    /\ pc = "idle"
    /\ \E ranking \in Rankings, lim \in Limits, outcome \in IndexOutcomes :
        LET r == query_with_filters(ranking, lim, outcome) IN
        /\ variant' = "query_with_filters" /\ limit' = lim
        /\ candidates' = ranking /\ indexOutcome' = outcome
        /\ response' = r.response /\ results' \in list_order(r.results)
        /\ rerun' = NoRerun
        /\ pc' = IF r.raised THEN "retrieval_failed" ELSE "done"
    /\ mode' = "function"
    /\ indexCalls' = indexCalls + 1
    /\ UNCHANGED <<provider, streamVars, evalVars, backendResp, httpVars,
                   clientVars, backendCalls>>
    /\ UNCHANGED modelVars
    /\ UNCHANGED displayVars
    /\ UNCHANGED flowVars

\* POST /search/unique-titles
search_unique ==
    /\ pc = "idle"
    /\ \E ranking \in Rankings, lim \in Limits, outcome \in IndexOutcomes :
        LET r == search_retrieval(ranking, lim, outcome) IN
        /\ variant' = "query_unique_titles" /\ limit' = lim
        /\ candidates' = ranking /\ indexOutcome' = outcome
        /\ response' = r.response /\ results' \in list_order(r.results)
        /\ rerun' = NoRerun
        /\ pc' = IF r.raised THEN "retrieval_failed" ELSE "done"
        /\ httpStatus' = exception_handler(r.raised)
    /\ mode' = "search"
    /\ indexCalls' = indexCalls + 1
    /\ UNCHANGED <<provider, streamVars, evalVars, backendResp, body, wire,
                   wireEnd, clientVars, backendCalls>>
    /\ UNCHANGED modelVars
    /\ UNCHANGED displayVars
    /\ UNCHANGED flowVars

\* the same retrieval call once more: same variant, same limit, and the
\* index answers with the same fused ranking
retrieve_again ==
    /\ pc = "done" /\ mode \in {"function", "search"} /\ ~rerun.done
    /\ LET r == IF variant = "query_with_filters"
                THEN query_with_filters(candidates, limit, "ok")
                ELSE query_unique_titles(candidates, limit, "ok")
       IN  \E res \in list_order(r.results) :
               rerun' = [done |-> TRUE, results |-> res]
    /\ indexCalls' = indexCalls + 1
    /\ UNCHANGED <<mode, pc, variant, limit, response, results, candidates,
                   indexOutcome, provider, streamVars, evalVars, backendResp,
                   httpVars, clientVars, backendCalls, modelVars, displayVars>>
    /\ UNCHANGED flowVars

\* step 1 of both generation routes: await query_with_filters(...)
RouteRetrieval(ranking, lim, outcome) ==
    LET r == context_retrieval(ranking, lim, outcome) IN
    /\ variant' = "query_with_filters" /\ limit' = lim
    /\ candidates' = ranking /\ indexOutcome' = outcome
    /\ response' = r.response /\ results' \in list_order(r.results)
    /\ rerun' = NoRerun
    /\ indexCalls' = indexCalls + 1

\* TRUE when the route's await of the retrieval function raises
RetrievalRaises(ranking, lim, outcome) ==
    context_retrieval(ranking, lim, outcome).raised

\* ------------------------------------------------------------ batch route
Answers == {<<>>, <<"Hel", "lo">>}

\* outcomes of chat.completions.create without stream=True
BatchResponses ==
    { [raised |-> FALSE, answer |-> a, finish_reason |-> f,
       native_finish_reason |-> f] : a \in Answers, f \in {"stop", "length"} }
    \cup { [raised |-> TRUE, answer |-> <<>>, finish_reason |-> None,
            native_finish_reason |-> None] }

\* finish_reason as generate_answer gets it from the adapter
generate_finish_reason(key, resp) ==
    IF key = "openrouter" THEN resp.native_finish_reason ELSE None

\* TRUE when generate_answer awaits evaluate_metrics before it returns
generate_evaluates(key) == key = "openrouter"

\* POST /search/ask, up to the first await that is not retrieval or backend
ask_with_generation ==
    /\ pc = "idle"
    /\ \E p \in ProviderNames, sm \in SelectedModels, ranking \in CtxRankings,
          lim \in CtxLimits, outcome \in IndexOutcomes, resp \in BatchResponses :
        LET cfg == get_config(p)
            key == Lower(p)
        IN
        /\ RouteRetrieval(ranking, lim, outcome)
        /\ mode' = "batch" /\ provider' = p /\ cpc' = "waiting"
        /\ selected_model' = sm
        /\ IF RetrievalRaises(ranking, lim, outcome)
           THEN /\ pc' = "retrieval_failed"
                /\ httpStatus' = exception_handler(TRUE)
                /\ UNCHANGED <<backendCalls, backendResp, evalVars, body,
                               model_requested>>
           ELSE IF ~cfg.ok
           THEN /\ pc' = "resolve_failed" /\ httpStatus' = 500
                /\ UNCHANGED <<backendCalls, backendResp, evalVars, body,
                               model_requested>>
           ELSE IF key \notin Dispatched
           THEN /\ pc' = "unknown_provider" /\ httpStatus' = 500
                /\ UNCHANGED <<backendCalls, backendResp, evalVars, body,
                               model_requested>>
           ELSE /\ backendCalls' = backendCalls + 1
                /\ model_requested' = generate_model(key, sm)
                /\ backendResp' = resp
                /\ IF resp.raised
                   THEN /\ pc' = "backend_failed" /\ httpStatus' = 500
                        /\ UNCHANGED <<evalVars, body>>
                   ELSE IF generate_evaluates(key)
                   THEN /\ pc' = "batch_eval" /\ evalState' = "running"
                        /\ evalInput' = resp.answer
                        /\ UNCHANGED <<httpStatus, body>>
                   ELSE /\ pc' = "done" /\ httpStatus' = 200
                        /\ body' = [present |-> TRUE, answer |-> resp.answer,
                                    finish_reason |-> generate_finish_reason(key, resp)]
                        /\ UNCHANGED evalVars
    /\ UNCHANGED <<streamVars, wire, wireEnd, answer_text, uiEvents>>
    /\ UNCHANGED displayVars
    /\ UNCHANGED flowVars

\* evaluate_metrics returns or raises inside generate_answer
batch_evaluate_done ==
    /\ pc = "batch_eval"
    /\ \E outcome \in evaluate_metrics :
        IF outcome = "ok"
        THEN /\ evalState' = "ok" /\ pc' = "done" /\ httpStatus' = 200
             /\ body' = [present |-> TRUE, answer |-> backendResp.answer,
                         finish_reason |->
                            generate_finish_reason(Lower(provider), backendResp)]
        ELSE /\ evalState' = "failed" /\ pc' = "backend_failed"
             /\ httpStatus' = 500 /\ UNCHANGED body
    /\ UNCHANGED <<mode, retrievalVars, provider, streamVars, evalInput,
                   backendResp, wire, wireEnd, clientVars, indexCalls,
                   backendCalls>>
    /\ UNCHANGED modelVars
    /\ UNCHANGED displayVars
    /\ UNCHANGED flowVars

\* -------------------------------------------------------- streaming route
\* POST /search/ask/stream up to the return of the StreamingResponse
ask_with_generation_stream ==
    /\ pc = "idle"
    /\ \E p \in ProviderNames, sm \in SelectedModels, ranking \in CtxRankings,
          lim \in CtxLimits, outcome \in IndexOutcomes :
        /\ RouteRetrieval(ranking, lim, outcome)
        /\ mode' = "stream" /\ provider' = p /\ cpc' = "waiting"
        /\ selected_model' = sm /\ UNCHANGED model_requested
        /\ IF RetrievalRaises(ranking, lim, outcome)
           THEN pc' = "retrieval_failed" /\ httpStatus' = exception_handler(TRUE)
           ELSE IF get_config(p).ok
           THEN pc' = "stream_ready" /\ httpStatus' = 200
           ELSE pc' = "resolve_failed" /\ httpStatus' = 500
    /\ UNCHANGED <<streamVars, evalVars, backendResp, body, wire, wireEnd,
                   answer_text, uiEvents, backendCalls>>
    /\ UNCHANGED displayVars
    /\ UNCHANGED flowVars

\* stream_gen yields the adapter's chunks: buffer.append(chunk); yield chunk
Forward(evs) ==
    /\ buffer' = buffer \o Data(evs)
    /\ sent' = sent \o evs
    /\ wire' = wire \o Join(Data(evs))

OnBackendRaise_swallow ==
    /\ pc' = "done" /\ wireEnd' = "eof"
    /\ UNCHANGED <<sent, wire>>

\* the backend raised inside the adapter: the except branch of stream_gen
\* yields the error marker, any other branch lets the exception through
OnBackendRaise ==
    IF stream_gen_guarded(Lower(provider))
    THEN /\ sent' = Append(sent, Error) /\ wire' = wire \o ERROR_MARK
         /\ pc' = "done" /\ wireEnd' = "eof"
    ELSE /\ pc' = "crashed" /\ wireEnd' = "abort"
         /\ UNCHANGED <<sent, wire>>

\* first step of stream_gen: dispatch on provider_lower and open the stream
stream_create ==
    /\ pc = "stream_ready"
    /\ IF Lower(provider) \notin Dispatched
       THEN /\ pc' = "crashed" /\ wireEnd' = "abort"
            /\ UNCHANGED <<backendCalls, backendEnd, sent, wire,
                           model_requested>>
       ELSE /\ backendCalls' = backendCalls + 1
            /\ model_requested' = stream_model(Lower(provider), selected_model)
            /\ \E ok \in BOOLEAN :
                IF ok
                THEN /\ pc' = "streaming"
                     /\ UNCHANGED <<backendEnd, sent, wire, wireEnd>>
                ELSE /\ backendEnd' = "raised"
                     /\ OnBackendRaise
    /\ UNCHANGED <<mode, retrievalVars, provider, chunks, last_finish_reason,
                   buffer, evalVars, backendResp, httpStatus, body, clientVars,
                   indexCalls>>
    /\ UNCHANGED selected_model
    /\ UNCHANGED displayVars
    /\ UNCHANGED flowVars

\* the backend stream delivers one more chunk
stream_chunk ==
    /\ pc = "streaming" /\ Len(chunks) < MaxChunks
    /\ \E c \in (IF chunks = <<>> THEN FirstChunks ELSE LaterChunks) :
        LET key == Lower(provider)
            n == Len(chunks) + 1
        IN
        /\ chunks' = Append(chunks, c)
        /\ Forward(adapter_chunk_yields(key, n, c))
        /\ last_finish_reason' = adapter_finish(key, n, c, last_finish_reason)
    /\ UNCHANGED <<mode, pc, retrievalVars, provider, backendEnd, evalVars,
                   backendResp, httpStatus, body, wireEnd, clientVars,
                   indexCalls, backendCalls>>
    /\ UNCHANGED modelVars
    /\ UNCHANGED displayVars
    /\ UNCHANGED flowVars

\* the backend stream ends; stream_gen finishes or starts the evaluation
stream_end ==
    /\ pc = "streaming"
    /\ backendEnd' = "eof"
    /\ Forward(adapter_end_yields(Lower(provider), last_finish_reason))
    /\ IF stream_gen_guarded(Lower(provider))
       THEN /\ pc' = "evaluating" /\ evalState' = "running"
            /\ evalInput' = Join(buffer')
            /\ UNCHANGED wireEnd
       ELSE /\ pc' = "done" /\ wireEnd' = "eof"
            /\ UNCHANGED evalVars
    /\ UNCHANGED <<mode, retrievalVars, provider, chunks, last_finish_reason,
                   backendResp, httpStatus, body, clientVars, indexCalls,
                   backendCalls>>
    /\ UNCHANGED modelVars
    /\ UNCHANGED displayVars
    /\ UNCHANGED flowVars

\* the backend raises while the stream is read
stream_raise ==
    /\ pc = "streaming"
    /\ backendEnd' = "raised"
    /\ OnBackendRaise
    /\ UNCHANGED <<mode, retrievalVars, provider, chunks, last_finish_reason,
                   buffer, evalVars, backendResp, httpStatus, body, clientVars,
                   indexCalls, backendCalls>>
    /\ UNCHANGED modelVars
    /\ UNCHANGED displayVars
    /\ UNCHANGED flowVars

\* evaluate_metrics returns or raises inside stream_gen's try block
stream_evaluate_done ==
    /\ pc = "evaluating"
    /\ \E outcome \in evaluate_metrics :
        IF outcome = "ok"
        THEN /\ evalState' = "ok" /\ UNCHANGED <<sent, wire>>
        ELSE /\ evalState' = "failed"
             /\ sent' = Append(sent, Error) /\ wire' = wire \o ERROR_MARK
    /\ pc' = "done" /\ wireEnd' = "eof"
    /\ UNCHANGED <<mode, retrievalVars, provider, chunks, backendEnd,
                   last_finish_reason, buffer, evalInput, backendResp,
                   httpStatus, body, clientVars, indexCalls, backendCalls>>
    /\ UNCHANGED modelVars
    /\ UNCHANGED displayVars
    /\ UNCHANGED flowVars

\* ------------------------------------------------------ consumer: call_ai
MSG_ERROR == <<"Request failed. Please try again later.">>
MSG_TRUNCATED == <<"AI response truncated due to token limit.">>
MSG_EXCEPTION == <<"Request failed: ">>

\* str.replace(marker, "")
Remove(s, token) == SelectSeq(s, LAMBDA t : t # token)

call_ai_chunk_nobreak(chunk, answer) ==
    IF StartsWith(chunk, MODEL_MARK)
    THEN [type |-> "model", content |-> Remove(chunk, MODEL_MARK[1]),
          answer |-> answer, stop |-> FALSE]
    ELSE IF StartsWith(chunk, ERROR_MARK)
    THEN [type |-> "error", content |-> MSG_ERROR, answer |-> answer,
          stop |-> FALSE]
    ELSE IF StartsWith(chunk, TRUNC_MARK)
    THEN [type |-> "truncated", content |-> MSG_TRUNCATED, answer |-> answer,
          stop |-> FALSE]
    ELSE [type |-> "text", content |-> answer \o chunk,
          answer |-> answer \o chunk, stop |-> FALSE]

\* body of the loop over r.iter_content for one non-empty chunk
call_ai_chunk(chunk, answer) ==
    IF StartsWith(chunk, MODEL_MARK)
    THEN [type |-> "model", content |-> Remove(chunk, MODEL_MARK[1]),
          answer |-> answer, stop |-> FALSE]
    ELSE IF StartsWith(chunk, ERROR_MARK)
    THEN [type |-> "error", content |-> MSG_ERROR, answer |-> answer,
          stop |-> TRUE]
    ELSE IF StartsWith(chunk, TRUNC_MARK)
    THEN [type |-> "truncated", content |-> MSG_TRUNCATED, answer |-> answer,
          stop |-> FALSE]
    ELSE [type |-> "text", content |-> answer \o chunk,
          answer |-> answer \o chunk, stop |-> FALSE]

UiEvent(t, c) == [type |-> t, content |-> c]

\* the non-streaming branch of call_ai on a 200 response
call_ai_batch(data) ==
    <<UiEvent("text", data.answer)>>
    \o (IF data.finish_reason = "length"
        THEN <<UiEvent("truncated", MSG_TRUNCATED)>> ELSE <<>>)

\* markdown.markdown of plain words: a paragraph, nothing for no text
markdown(content) ==
    IF content = <<>> THEN <<>> ELSE <<"<p>">> \o content \o <<"</p>">>

answer_div(content) == <<"<div answer>">> \o markdown(content) \o <<"</div>">>
warning_div(content) == <<"<div warning>">> \o content \o <<"</div>">>
error_div(content) == <<"<div error>">> \o content \o <<"</div>">>

\* body of the loop of handle_ai_question_streaming for one event of
\* call_ai: the markup kept in answer_html and the markup yielded to the UI
handle_event(html, ev) ==
    CASE ev.type = "text" ->
            [answer_html |-> answer_div(ev.content),
             shown |-> answer_div(ev.content)]
      [] ev.type = "truncated" ->
            [answer_html |-> html \o warning_div(ev.content),
             shown |-> html \o warning_div(ev.content)]
      [] ev.type = "error" ->
            [answer_html |-> html, shown |-> error_div(ev.content)]
      [] OTHER -> [answer_html |-> html, shown |-> html]

\* the handler run over the events call_ai yields in one step
RECURSIVE handle_events(_, _, _)
handle_events(html, out, evs) ==
    IF evs = <<>> THEN [answer_html |-> html, shown |-> out]
    ELSE LET h == handle_event(html, Head(evs))
         IN  handle_events(h.answer_html, h.shown, Tail(evs))

\* the UI handler consumes the events evs
Display(evs) ==
    LET h == handle_events(answer_html, shown, evs) IN
    /\ answer_html' = h.answer_html
    /\ shown' = h.shown

\* the response headers arrive: r.raise_for_status()
call_ai_response ==
    /\ cpc = "waiting" /\ httpStatus # 0
    /\ IF httpStatus # 200
       THEN /\ uiEvents' = Append(uiEvents, UiEvent("error", MSG_EXCEPTION))
            /\ Display(<<UiEvent("error", MSG_EXCEPTION)>>)
            /\ cpc' = "done" /\ UNCHANGED answer_text
       ELSE IF mode = "stream"
       THEN cpc' = "reading" /\ UNCHANGED <<uiEvents, answer_text, displayVars>>
       ELSE /\ uiEvents' = uiEvents \o call_ai_batch(body)
            /\ Display(call_ai_batch(body))
            /\ answer_text' = body.answer
            /\ cpc' = "done"
    /\ UNCHANGED <<mode, pc, retrievalVars, provider, streamVars, evalVars,
                   backendResp, httpVars, indexCalls, backendCalls>>
    /\ UNCHANGED modelVars
    /\ UNCHANGED flowVars

\* iter_content hands over the next piece of the body, however the
\* transport cut it
call_ai_read ==
    /\ cpc = "reading" /\ wire # <<>>
    /\ \E k \in 1..Len(wire) :
        LET r == call_ai_chunk(SubSeq(wire, 1, k), answer_text) IN
        /\ wire' = SubSeq(wire, k + 1, Len(wire))
        /\ uiEvents' = Append(uiEvents, UiEvent(r.type, r.content))
        /\ Display(<<UiEvent(r.type, r.content)>>)
        /\ answer_text' = r.answer
        /\ cpc' = IF r.stop THEN "done" ELSE "reading"
    /\ UNCHANGED <<mode, pc, retrievalVars, provider>>
    /\ UNCHANGED <<chunks, backendEnd, last_finish_reason, buffer, sent,
                   evalVars, backendResp, httpStatus, body, wireEnd,
                   indexCalls, backendCalls>>
    /\ UNCHANGED modelVars
    /\ UNCHANGED flowVars

\* the body ends: normally, or broken off because stream_gen raised
call_ai_close ==
    /\ cpc = "reading" /\ wire = <<>> /\ wireEnd # "open"
    /\ IF wireEnd = "abort"
       THEN /\ uiEvents' = Append(uiEvents, UiEvent("error", MSG_EXCEPTION))
            /\ Display(<<UiEvent("error", MSG_EXCEPTION)>>)
       ELSE UNCHANGED <<uiEvents, displayVars>>
    /\ cpc' = "done"
    /\ UNCHANGED <<mode, pc, retrievalVars, provider, streamVars, evalVars,
                   backendResp, httpVars, answer_text, indexCalls,
                   backendCalls>>
    /\ UNCHANGED modelVars
    /\ UNCHANGED flowVars

\* ------------------------------------------------------- qdrant_ingest_flow
\* One run of the ingestion flow against a Prefect server that knows the
\* flows of 'reg' and holds the runs of 'kinds'. With no from_date the flow
\* asks for the start of its last completed run and falls back to the default
\* start date; a server that cannot be reached makes the flow raise.
qdrant_ingest_flow ==
    /\ pc = "idle"
    /\ \E reg \in Registries, kinds \in Histories, fd \in FromDates,
          api \in {"ok", "unreachable"} :
        /\ FlowsOf(kinds) \subseteq reg
        /\ registry' = reg
        /\ history' = History(kinds)
        /\ from_date' = fd
        /\ IF ~fd.none
           THEN /\ last_run_date' = NoDate
                /\ from_date_dt' = fd
                /\ pc' = "ingested"
           ELSE IF api = "unreachable"
           THEN /\ last_run_date' = NoDate
                /\ from_date_dt' = NoDate
                /\ pc' = "flow_failed"
           ELSE /\ last_run_date' =
                      get_last_successful_run(reg, History(kinds),
                                              QDRANT_INGEST_FLOW)
                /\ from_date_dt' = fallback_date(last_run_date')
                /\ pc' = "ingested"
    /\ mode' = "flow"
    /\ UNCHANGED <<retrievalVars, provider, streamVars, evalVars, backendResp,
                   httpVars, clientVars, indexCalls, backendCalls, modelVars,
                   displayVars>>

Next ==
    \/ QueryWithFilters
    \/ search_unique
    \/ retrieve_again
    \/ ask_with_generation
    \/ batch_evaluate_done
    \/ ask_with_generation_stream
    \/ stream_create
    \/ stream_chunk
    \/ stream_end
    \/ stream_raise
    \/ stream_evaluate_done
    \/ call_ai_response
    \/ call_ai_read
    \/ call_ai_close
    \/ qdrant_ingest_flow

Spec == Init /\ [][Next]_vars

\* ================================================================== claims
Retrieved == variant # None

DedupKey(pt) == IF variant = "query_with_filters" THEN pt.id ELSE pt.title

\* a point that has the active dedup key (every point has an id)
HasKey(pt) == variant = "query_with_filters" \/ ~not_title(pt.title)

PairwiseDistinctKeys(s) ==
    \A i, j \in DOMAIN s : i # j => DedupKey(s[i]) # DedupKey(s[j])

\* C1: for every limit L >= 1 and every candidate list, query_with_filters
\* returns at most L results built from pairwise distinct point ids and
\* query_unique_titles at most L results with pairwise distinct titles.
C1_AtMostLimitDistinct ==
    (Retrieved /\ limit >= 1) =>
        /\ Len(results) <= limit
        /\ PairwiseDistinctKeys(results)

\* query_with_filters cut a list of distinct ids, fetched with duplicates,
\* down to the limit
C1_Witness ==
    /\ variant = "query_with_filters" /\ limit = 1
    /\ Len(response) = 3 /\ response[1].id = response[2].id
    /\ response[3].id # response[1].id
    /\ Len(results) = 1

\* ranks of the response whose point is the first one with its dedup key
FirstOccurrences ==
    { r \in DOMAIN response :
        /\ HasKey(response[r])
        /\ \A q \in 1..(r - 1) : DedupKey(response[q]) # DedupKey(response[r]) }

\* C2: the result of either variant is a subsequence of the fused response
\* in the same relative order, every dedup key is represented by its first,
\* highest-ranked occurrence, and exactly the first limit distinct keys (all
\* of them when the candidates run out before) are collected.
C2_FusedOrderFirstOccurrence ==
    (Retrieved /\ limit >= 1) =>
        /\ \A i \in DOMAIN results :
              /\ results[i].rank \in DOMAIN response
              /\ results[i] = response[results[i].rank]
        /\ \A i, j \in DOMAIN results :
              i < j => results[i].rank < results[j].rank
        /\ { results[i].rank : i \in DOMAIN results } =
              { r \in FirstOccurrences :
                  Cardinality({ q \in FirstOccurrences : q <= r }) <= limit }

\* title dedup skipped a repeated title and an untitled point and stopped
\* at the limit
C2_Witness ==
    /\ variant = "query_unique_titles" /\ limit = 1
    /\ Len(response) = 3
    /\ response[1].title = NoTitle
    /\ response[2].title = response[3].title /\ response[2].title # NoTitle
    /\ Len(results) = 1 /\ results[1].rank = 2

\* non-empty delta.content of the chunks read from the backend, in order
ContentFragments(cs) ==
    LET withText == SelectSeq(cs, LAMBDA c : c.content # <<>>)
    IN  [i \in DOMAIN withText |-> withText[i].content]

\* the last finish_reason any chunk of the backend stream reported
RECURSIVE TerminalFinish(_)
TerminalFinish(cs) ==
    IF cs = <<>> THEN None
    ELSE IF cs[Len(cs)].finish_reason # None THEN cs[Len(cs)].finish_reason
    ELSE TerminalFinish(SubSeq(cs, 1, Len(cs) - 1))

OfKind(evs, k) == SelectSeq(evs, LAMBDA e : e.kind = k)

StreamOver == mode = "stream" /\ pc \in {"done", "crashed"}

\* C3: for every backend, when the backend stream delivers the fragments
\* f1..fn and its terminal finish-reason is a length cutoff, the event
\* sequence has exactly the n Text events, in order, ends with exactly one
\* Truncated event and nothing follows it.
C3_TruncatedClosesStream ==
    (/\ StreamOver /\ backendEnd = "eof"
     /\ ContentFragments(chunks) # <<>>
     /\ TerminalFinish(chunks) = "length") =>
        /\ Data(OfKind(sent, "text")) = ContentFragments(chunks)
        /\ Len(OfKind(sent, "truncated")) = 1
        /\ sent[Len(sent)] = Truncated

\* C4: for every backend, if the backend raises after one content fragment
\* has been emitted, the event sequence is that fragment's Text event
\* followed by exactly one Error event and nothing after.
C4_ErrorAfterOneFragment ==
    (StreamOver /\ backendEnd = "raised" /\ Len(ContentFragments(chunks)) = 1) =>
        SelectSeq(sent, LAMBDA e : e.kind # "model")
            = <<Text(ContentFragments(chunks)[1]), Error>>

\* C5: in every event sequence of a streaming call, that of stream_gen and
\* that of call_ai, at most one Error event occurs and it is the last event.
C5_ErrorIsLast ==
    /\ \A i \in DOMAIN sent : sent[i].kind = "error" => i = Len(sent)
    /\ mode = "stream" =>
          \A i \in DOMAIN uiEvents :
              uiEvents[i].type = "error" => i = Len(uiEvents)

\* the backend raised after a fragment: both sequences end with their only
\* Error event, after the Text event
C5_Witness ==
    /\ mode = "stream" /\ pc = "done" /\ cpc = "done"
    /\ backendEnd = "raised"
    /\ Len(sent) = 2 /\ sent[1].kind = "text" /\ sent[2].kind = "error"
    /\ Len(uiEvents) = 2 /\ uiEvents[1].type = "text"
    /\ uiEvents[2].type = "error"

Unregistered == Lower(provider) \notin MODEL_REGISTRY

\* C6: resolving a provider name without a registered configuration fails,
\* in generate_answer and in get_streaming_function, before any backend
\* call; in streaming mode the failure is raised when the stream function
\* is obtained (no response is started), never while the stream is consumed.
\* The provider is resolved once the retrieval step of the route has returned.
C6_UnknownProviderFailsEarly ==
    (mode \in {"batch", "stream"} /\ Unregistered /\ pc # "retrieval_failed") =>
        /\ pc = "resolve_failed"
        /\ backendCalls = 0
        /\ httpStatus = 500
        /\ sent = <<>> /\ wireEnd = "open"

\* a streaming request for an unregistered provider, its error shown
C6_Witness ==
    /\ mode = "stream" /\ provider = "not-a-real-provider"
    /\ pc = "resolve_failed" /\ cpc = "done"
    /\ Len(uiEvents) = 1 /\ uiEvents[1].type = "error"

\* C7: a generation request naming an unregistered provider returns its
\* provider-selection error without any network call having been made,
\* the query to the Similarity Index included.
C7_NoNetworkCallBeforeProviderError ==
    pc = "resolve_failed" => (indexCalls = 0 /\ backendCalls = 0)

\* C8: a failure of the evaluation step never changes what the consumer
\* receives: the streamed events are the adapter's events and no Error is
\* added, and the batch answer obtained from the backend is still returned.
C8_EvaluationFailureInvisible ==
    evalState = "failed" =>
        /\ mode = "stream" =>
              (Data(sent) = buffer /\ OfKind(sent, "error") = <<>>)
        /\ mode = "batch" =>
              (httpStatus = 200 /\ body.present
               /\ body.answer = backendResp.answer)

\* C9: the evaluation never blocks delivery: in streaming mode every event
\* has been handed over before the evaluation starts, and in batch mode the
\* answer has been returned while the evaluation is still running.
C9_EvaluationNeverBlocks ==
    /\ (mode = "stream" /\ evalState # "idle") => Data(sent) = buffer
    /\ (mode = "batch" /\ evalState = "running") =>
          (httpStatus = 200 /\ body.present)

\* C10: in batch mode, for every backend, the backend is called once; on
\* success the outcome carries the full answer and a truncation indication
\* exactly when the backend's finish-reason is a length cutoff; if the call
\* raises, one error outcome and no answer text is produced.
C10_BatchOutcome ==
    (mode = "batch" /\ backendCalls > 0) =>
        /\ backendCalls = 1
        /\ (~backendResp.raised /\ pc = "done") =>
              /\ httpStatus = 200 /\ body.present
              /\ body.answer = backendResp.answer
              /\ (body.finish_reason = "length")
                    <=> (backendResp.finish_reason = "length")
        /\ backendResp.raised => (httpStatus = 500 /\ ~body.present)

\* concatenation of the Text events of the stream
StreamedText == Join(Data(OfKind(sent, "text")))

\* C11: for each backend and every non-truncated answer, however the backend
\* splits it into stream fragments, the concatenation of the Text events of
\* the streaming mode is the backend's answer text, which is also what the
\* batch mode returns as the answer.
C11_StreamTextEqualsBatchAnswer ==
    /\ (mode = "stream" /\ backendEnd = "eof"
         /\ TerminalFinish(chunks) # "length") =>
            StreamedText = Join(ContentFragments(chunks))
    /\ (mode = "batch" /\ body.present) => body.answer = backendResp.answer

\* the answer "Hello" streamed in two fragments, the first on the chunk
\* that also names the model, is one of the answers the batch mode returns
C11_Witness ==
    /\ mode = "stream" /\ pc = "done" /\ backendEnd = "eof"
    /\ Lower(provider) = "openrouter"
    /\ Len(chunks) = 2 /\ chunks[1].content = HEL /\ chunks[2].content = LO
    /\ chunks[1].model # None
    /\ TerminalFinish(chunks) = "stop"
    /\ StreamedText \in Answers

IsPrefix(s, t) == Len(s) <= Len(t) /\ SubSeq(t, 1, Len(s)) = s

UiOfType(t) == SelectSeq(uiEvents, LAMBDA e : e.type = t)

\* C12: every model-selection, error and truncation marker the server emits
\* is interpreted by call_ai as the corresponding event and never appended
\* to the displayed answer text, and no answer fragment is interpreted as a
\* marker, however the transport cuts the body into chunks.
C12_MarkersInterpretedNeverShown ==
    mode = "stream" =>
        /\ IsPrefix(answer_text, StreamedText)
        /\ Len(UiOfType("model")) <= Len(OfKind(sent, "model"))
        /\ Len(UiOfType("truncated")) <= Len(OfKind(sent, "truncated"))
        /\ (cpc = "done" /\ wire = <<>> /\ wireEnd = "eof") =>
              /\ answer_text = StreamedText
              /\ Len(UiOfType("model")) = Len(OfKind(sent, "model"))
              /\ Len(UiOfType("truncated")) = Len(OfKind(sent, "truncated"))
              /\ Len(UiOfType("error")) = Len(OfKind(sent, "error"))

\* C13: for every backend adapter, in generate and in stream, the model
\* requested from the backend is the per-call override when one is
\* supplied and the provider's configured primary model otherwise.
C13_OverrideTakesPrecedence ==
    backendCalls > 0 =>
        model_requested =
            (IF selected_model # None THEN selected_model
             ELSE primary_model(Lower(provider)))

\* C14: when the backend reveals the concrete model on its first chunk, the
\* stream of events contains exactly one ModelSelected and it precedes every
\* Text; no stream contains more than one ModelSelected.
ModelRevealed == chunks # <<>> /\ chunks[1].model # None

C14_OneModelSelectedFirst ==
    mode = "stream" =>
        /\ Len(OfKind(sent, "model")) <= 1
        /\ ModelRevealed =>
              /\ Len(OfKind(sent, "model")) = 1
              /\ \A i, j \in DOMAIN sent :
                    (sent[i].kind = "model" /\ sent[j].kind = "text") => i < j

\* C15: in title-dedup mode, when the candidates matching the query are N
\* records with k distinct titles (k < N) and the limit L is at most k,
\* query_unique_titles returns exactly L results.
RecordsOf(ranking) == { ranking[i] : i \in DOMAIN ranking }
TitlesOf(ranking) ==
    { TitleOf(id) : id \in RecordsOf(ranking) } \ {None, NoTitle}

C15_ExactlyLimitTitles ==
    (/\ variant = "query_unique_titles" /\ pc = "done"
     /\ limit >= 1
     /\ Cardinality(TitlesOf(candidates)) < Cardinality(RecordsOf(candidates))
     /\ limit <= Cardinality(TitlesOf(candidates)))
        => Len(results) = limit

\* C16: when zero candidates match the query and filters, both
\* query_with_filters and query_unique_titles return an empty list and raise
\* no error.
C16_EmptyMatchIsEmptyList ==
    (Retrieved /\ indexOutcome = "ok" /\ candidates = <<>>) =>
        /\ results = <<>>
        /\ pc # "retrieval_failed"
        /\ mode = "search" => httpStatus = 200

C16_Witness ==
    /\ variant = "query_unique_titles" /\ mode = "search" /\ limit >= 1
    /\ indexOutcome = "ok" /\ candidates = <<>>
    /\ results = <<>> /\ pc = "done" /\ httpStatus = 200

\* C17: when the call of the index fails or its response is malformed, the
\* retrieval call fails as a whole: its caller gets the exception and no
\* result list, the route answers 500 and nothing is generated, in both
\* retrieval variants.
C17_AllOrNothing ==
    (Retrieved /\ indexOutcome \in {"unreachable", "malformed"}) =>
        /\ pc = "retrieval_failed"
        /\ results = <<>>
        /\ mode # "function" => httpStatus = 500
        /\ backendCalls = 0 /\ sent = <<>> /\ ~body.present

C17_Witness ==
    /\ variant = "query_unique_titles" /\ indexOutcome = "malformed"
    /\ Len(candidates) = 2 /\ limit = 2
    /\ pc = "retrieval_failed" /\ results = <<>> /\ httpStatus = 500

\* C18: when an Error event arrives after one or more Text events of a
\* streaming answer, the output displayed after the error still contains
\* the text accumulated before it.
Contains(s, t) ==
    \E i \in 1..(Len(s) - Len(t) + 1) : SubSeq(s, i, i + Len(t) - 1) = t

C18_PartialAnswerKept ==
    (/\ mode = "stream" /\ uiEvents # <<>>
     /\ OfKind(sent, "error") # <<>>
     /\ uiEvents[Len(uiEvents)].type = "error"
     /\ answer_text # <<>>
     /\ UiOfType("text") # <<>>)
        => Contains(shown, answer_text)

\* C19: record-identity dedup is the variant used for raw search requests
\* and title dedup is the variant used to assemble the context of generation
\* requests (batch and streaming).
KeyBy(by, pt) == IF by = "id" THEN pt.id ELSE pt.title

FirstBy(by) ==
    { r \in DOMAIN response :
        /\ (by = "title" => ~not_title(response[r].title))
        /\ \A q \in 1..(r - 1) :
              KeyBy(by, response[q]) # KeyBy(by, response[r]) }

\* the results are the first limit points of the response that are new by
\* the given key
DedupedBy(by) ==
    { results[i].rank : i \in DOMAIN results } =
        { r \in FirstBy(by) :
            Cardinality({ q \in FirstBy(by) : q <= r }) <= limit }

RetrievalDone == Retrieved /\ pc # "retrieval_failed" /\ limit >= 1

C19_IdForSearchTitleForContext ==
    /\ (RetrievalDone /\ mode = "search") => DedupedBy("id")
    /\ (RetrievalDone /\ mode \in {"batch", "stream"}) => DedupedBy("title")

\* C19 (amended): title dedup is the variant used for raw search requests
\* (/search/unique-titles) and record-identity dedup is the variant used to
\* assemble the context of generation requests (batch and streaming).
C19_TitleForSearchIdForContext ==
    /\ (RetrievalDone /\ mode = "search") => DedupedBy("title")
    /\ (RetrievalDone /\ mode \in {"batch", "stream"}) => DedupedBy("id")

\* a generation request whose context holds two records of one title
C19_Witness ==
    /\ mode = "stream" /\ pc = "done"
    /\ Len(results) = 2
    /\ results[1].title = results[2].title /\ results[1].id # results[2].id

\* C20: for every generation request, batch or streaming, the backend
\* completion call is issued at most once, also when it fails: a backend
\* error is never swallowed (the batch request answers 500 without a body,
\* the stream ends with an Error event or breaks off) and never retried.
C20_CalledOnceNeverSwallowed ==
    /\ backendCalls <= 1
    /\ (mode = "batch" /\ backendResp.raised) =>
          /\ backendCalls = 1
          /\ pc = "backend_failed" /\ httpStatus = 500 /\ ~body.present
    /\ (mode = "stream" /\ backendEnd = "raised") =>
          /\ backendCalls = 1
          /\ \/ pc = "crashed" /\ wireEnd = "abort"
             \/ /\ pc = "done" /\ wireEnd = "eof"
                /\ sent # <<>> /\ sent[Len(sent)] = Error

\* an openrouter stream that failed after its first fragment
C20_Witness ==
    /\ mode = "stream" /\ Lower(provider) = "openrouter"
    /\ backendEnd = "raised" /\ backendCalls = 1
    /\ ContentFragments(chunks) # <<>>
    /\ sent[Len(sent)] = Error /\ cpc = "done"

\* C21: in title-dedup mode a candidate whose payload has no title (missing,
\* null or empty) never appears in the result and does not count toward the
\* limit: the result holds as many points as the limit allows of the titles
\* the response carries.
ResponseTitles ==
    { response[r].title : r \in DOMAIN response } \ {None, NoTitle}

C21_UntitledSkipped ==
    (variant = "query_unique_titles" /\ pc = "done") =>
        /\ \A i \in DOMAIN results : results[i].title \notin {None, NoTitle}
        /\ limit >= 1 => Len(results) = Min(limit, Cardinality(ResponseTitles))

\* a null title and an empty title ranked above the one titled point
C21_Witness ==
    /\ variant = "query_unique_titles" /\ pc = "done" /\ limit = 1
    /\ Len(response) = 3
    /\ response[1].title = None /\ response[2].title = NoTitle
    /\ response[3].title = "B"
    /\ Len(results) = 1 /\ results[1].rank = 3

\* C22: provider resolution is case-insensitive: a request naming the
\* provider in one casing resolves as every other casing of that name does,
\* to the same configuration and the same adapter branch, or fails as they
\* do, in batch and in streaming mode.
SameName(p, q) == Lower(p) = Lower(q)

\* the adapter branch the dispatch on provider_lower selects, None for none
AdapterOf(p) == IF Lower(p) \in Dispatched THEN Lower(p) ELSE None

C22_CaseInsensitiveResolution ==
    (mode \in {"batch", "stream"} /\ pc # "retrieval_failed") =>
        \A q \in ProviderNames :
            SameName(q, provider) =>
                /\ get_config(q) = get_config(provider)
                /\ AdapterOf(q) = AdapterOf(provider)
                /\ pc = "resolve_failed" <=> ~get_config(q).ok
                /\ backendCalls > 0 => AdapterOf(q) # None
                /\ (backendCalls > 0 /\ mode = "stream") =>
                      model_requested = stream_model(AdapterOf(q), selected_model)
                /\ (backendCalls > 0 /\ mode = "batch") =>
                      model_requested = generate_model(AdapterOf(q), selected_model)

\* a capitalised name streamed an answer from the adapter of the lower-case
\* name
C22_Witness ==
    /\ mode = "stream" /\ provider = "OpenRouter" /\ pc = "done"
    /\ backendCalls = 1 /\ OfKind(sent, "text") # <<>>
    /\ model_requested = stream_model("openrouter", selected_model)

\* C23: one convention for Text content holds system-wide: every Text event
\* of the orchestrator's stream and every text event call_ai yields carries
\* only the new fragment, so the contents of the text events of either
\* stream concatenate to the text delivered so far.
UiTextContents ==
    LET texts == UiOfType("text") IN [i \in DOMAIN texts |-> texts[i].content]

C23_TextCarriesNewFragment ==
    mode = "stream" =>
        /\ Data(OfKind(sent, "text")) = ContentFragments(chunks)
        /\ Join(UiTextContents) = answer_text

\* C24: after a streaming or batch call completes successfully, for every
\* backend, the evaluation step has been invoked exactly once, with exactly
\* the full answer text: the concatenation of the Text fragments and nothing
\* else (no model-selection or truncation marker).
Evaluated == evalState # "idle"

C24_EvaluatedOnceWithAnswer ==
    /\ (mode = "stream" /\ pc = "done" /\ backendEnd = "eof") =>
          (Evaluated /\ evalInput = StreamedText)
    /\ (mode = "batch" /\ backendCalls = 1 /\ ~backendResp.raised) =>
          (Evaluated /\ evalInput = backendResp.answer)

RECURSIVE FinishAfter(_, _, _, _)
FinishAfter(key, cs, n, last) ==
    IF n > Len(cs) THEN last
    ELSE FinishAfter(key, cs, n + 1, adapter_finish(key, n, cs[n], last))

\* TRUE when the adapter of key ends its stream over cs with the marker
EmitsTruncated(key, cs) ==
    adapter_end_yields(key, FinishAfter(key, cs, 1, None)) = <<Truncated>>

AdapterItems == SelectSeq(sent, LAMBDA e : e.kind # "error")

C27_OpenRouterTruncatesLikeOpenAI ==
    (mode = "stream" /\ Lower(provider) = "openrouter" /\ backendEnd = "eof") =>
        /\ (OfKind(sent, "truncated") # <<>>) <=> (TerminalFinish(chunks) = "length")
        /\ (OfKind(sent, "truncated") # <<>>) =>
              AdapterItems[Len(AdapterItems)] = Truncated
        /\ (OfKind(sent, "truncated") # <<>>) <=> EmitsTruncated("openai", chunks)

\* C28: every provider name the orchestrator dispatches on and the UI offers
\* (openai, openrouter, huggingface) has a configuration in the default
\* registry: a generation request for it, batch or streaming, never fails at
\* the resolution of the provider.
C28_DispatchedProvidersResolve ==
    (/\ mode \in {"batch", "stream"} /\ pc # "retrieval_failed"
     /\ Lower(provider) \in Dispatched)
        => (get_config(provider).ok /\ pc # "resolve_failed")

\* C29: for every limit <= 0, query_with_filters and query_unique_titles
\* both return an empty list, whatever candidates the index returns.
C29_NonPositiveLimitIsEmpty ==
    (Retrieved /\ pc = "done" /\ limit <= 0) => results = <<>>

\* C30: whenever the flow is registered under exactly that name and has a
\* completed run, get_last_successful_run returns the start time of the most
\* recent of its completed runs, whatever runs the other flows have; it
\* returns None only if the flow is unknown or has no completed run.
OwnCompletedRuns ==
    LET own(r) == r.flow_id = QDRANT_INGEST_FLOW /\ r.state = "COMPLETED"
    IN  SelectSeq(history, own)

LookedUp == mode = "flow" /\ pc = "ingested" /\ from_date.none

C30_LastCompletedRunOfTheFlow ==
    LookedUp =>
        /\ (QDRANT_INGEST_FLOW \in registry /\ OwnCompletedRuns # <<>>)
              => last_run_date = Date(OwnCompletedRuns[1].start_time)
        /\ last_run_date.none
              => (QDRANT_INGEST_FLOW \notin registry \/ OwnCompletedRuns = <<>>)

====
